---- MODULE Spec2Model ----
(***************************************************************************)
(* Model of CodeEditingAgent.runCodeEditWorkflow (src/swe/codeEditingAgent *)
(* .ts) and of the outcome of CodeEditor.editFilesToMeetRequirements       *)
(* (src/swe/codeEditor.ts).                                                *)
(*                                                                         *)
(* The workflow is one sequential async function.  Every awaited external  *)
(* call is one step; pc is the position between two awaits.  The outcome   *)
(* of each external call (editor, compile/static-analysis/test command,    *)
(* error analyser, version control, file selection, project detection) is  *)
(* chosen nondeterministically.  The collaborators that may fail are the   *)
(* ones the workflow's error taxonomy names: project detection, the        *)
(* CodeEditor and the three commands; the others return.                   *)
(***************************************************************************)
EXTENDS Naturals, Sequences, FiniteSets

VARIABLES
    pc,                     \* position in runCodeEditWorkflow / testLoop
    projectInfo,            \* the ProjectInfo argument or the detected one
    detected,               \* detected.length (0 while detection has not run)
    initialSelectedFiles,   \* string[] (line 44), shared with testLoop
    files,                  \* string[] local to one edit round (line 71)
    editRequirements,       \* text built at lines 72-74
    errorAnalysis,          \* CompileErrorAnalysis | null (line 64)
    compileErrorOutput,     \* string | null (line 65)
    i,                      \* index of the for loop that is running
    thrown,                 \* message of the exception on its way to a catch
    staticErrorFiles,       \* result of extractFilenames (line 119)
    extractedFrom,          \* the text extractFilenames was given (line 119)
    testErrorOutput,        \* testLoop local (line 181)
    testErrorAnalysis,      \* testLoop local errorAnalysis (line 182)
    testLoopResult,         \* value returned by testLoop (line 199)
    result,                 \* "running" | "returned" | "raised:<what>"
    calls,                  \* number of calls made to each collaborator
    round,                  \* the calls of the current round, with outcomes
    lastEdit,               \* arguments and outcome of the last CodeEditor call
    lastAnalyze,            \* arguments and result of the last analyzeCompileErrors call
    installed,              \* packages installed in the current edit round
    saResults,              \* outcomes of the static-analysis command, in order
    testResults,            \* outcomes of the test command, in order
    editor                  \* one run of CodeEditor.editFilesToMeetRequirements

vars == <<pc, projectInfo, detected, initialSelectedFiles, files,
          editRequirements, errorAnalysis, compileErrorOutput, i, thrown,
          staticErrorFiles, testErrorOutput, testErrorAnalysis,
          testLoopResult, result, calls, round, lastEdit, installed,
          saResults, testResults, extractedFrom, lastAnalyze, editor>>

setupVars == <<projectInfo, detected, editor>>
editVars  == <<files, editRequirements, errorAnalysis, compileErrorOutput, installed>>
saVars    == <<staticErrorFiles, extractedFrom, saResults>>
testVars  == <<testErrorOutput, testErrorAnalysis, testLoopResult, testResults>>

----------------------------------------------------------------------------
(* Program constants *)

MAX_ATTEMPTS == 2
STATIC_ANALYSIS_MAX_ATTEMPTS == 2
TestLoop_MAX_ATTEMPTS == 2

(* Bounds of the environment *)

MaxDetected == 2        \* detectProjectInfo returns 0..MaxDetected candidates
MaxSecondary == 1       \* secondaryFiles selected by selectFilesToEdit
MaxNamed == 1           \* files, and packages, named by one diagnosis
MaxNewFiles == 1        \* files added in the head commit by one edit
MaxExitCode == 1        \* exit code of the aider command
MaxExtracted == 1       \* file names returned by extractFilenames

PrimaryPool == <<"a.ts">>
SecondaryPool == <<"b.ts", "c.ts">>
AdditionalPool == <<"x.ts", "y.ts">>
PackagePool == <<"pkg1", "pkg2">>
NewFilePool == <<"n.ts", "m.ts">>
ExtractPool == <<"a.ts", "b.ts">>

Prefixes(pool, n) == { SubSeq(pool, 1, k) : k \in 0..n }

----------------------------------------------------------------------------
(* Values *)

NoText == "null"

\* the CompileErrorAnalysis value null
Null == [null |-> TRUE, additionalFiles |-> <<>>, installPackages |-> <<>>]

Analysis(af, ip) == [null |-> FALSE, additionalFiles |-> af, installPackages |-> ip]

\* e.message of the TypeError raised by reading a property of null
TypeErrorMessage == "TypeError: Cannot read properties of null (reading 'installPackages')"

\* e.message of the errors thrown by compile, runStaticAnalysis and runTests
CompileOutput == "<compile_output>"
StaticAnalysisOutput == "<static_analysis_output>"
TestOutput == "<test_output>"

\* a requirements text: what it is for, and the diagnostic text it carries
Requirements(kind, text) == [kind |-> kind, text |-> text]

NoRequirements == Requirements("none", NoText)

NoEdit == [stage |-> "none", requirements |-> NoRequirements, filesToEdit |-> <<>>,
           command |-> FALSE, outcome |-> "none"]

NoAnalyze == [stage |-> "none", output |-> NoText, candidateFiles |-> <<>>,
              diagnosis |-> Null]

NoCalls == [detectProjectInfo |-> 0, selectFilesToEdit |-> 0, generateText |-> 0,
            installPackage |-> 0, baselineCompile |-> 0, editEditor |-> 0,
            getFilesAddedInHeadCommit |-> 0, postEditCompile |-> 0,
            postEditCompileOk |-> 0, editAnalyze |-> 0,
            runStaticAnalysis |-> 0, commit |-> 0, extractFilenames |-> 0,
            staticEditor |-> 0, warn |-> 0,
            testEditor |-> 0, testCompile |-> 0, runTests |-> 0,
            testAnalyze |-> 0, compileOk |-> 0, editorFailed |-> 0]

Count(c, name) == [c EXCEPT ![name] = @ + 1]

----------------------------------------------------------------------------
(* The collaborators *)

\* analyzeCompileErrors(output, files): no diagnosis, or a diagnosis naming
\* k additional files and k packages to install
analyzeCompileErrors ==
    {Null} \cup { Analysis(SubSeq(AdditionalPool, 1, k), SubSeq(PackagePool, 1, k)) :
                     k \in 0..MaxNamed }

\* What one run of CodeEditor.editFilesToMeetRequirements finds around it
EditorEnv == [key : BOOLEAN, historyFile : BOOLEAN,
              exitCode : 0..MaxExitCode, costError : BOOLEAN]

\* CodeEditor.editFilesToMeetRequirements: "ok", or the message of the error
\* it throws
EditorOutcome(env) ==
    IF ~env.key THEN "Aider code editing requires a key for Anthropic, Deepseek or OpenAI"
    ELSE IF ~env.historyFile THEN "Fatal Error reading/writing Aider llmH-history-file"
    ELSE IF env.exitCode > 0 THEN "<aider stdout stderr>"
    ELSE "ok"

\* whether that run executed the aider command
EditorRanCommand(env) == env.key /\ env.historyFile

\* the record of a CodeEditor call
Edit(stage, requirements, filesToEdit, env) ==
    [stage |-> stage, requirements |-> requirements, filesToEdit |-> filesToEdit,
     command |-> EditorRanCommand(env), outcome |-> EditorOutcome(env)]

CountEdit(c, name, env) ==
    LET c1 == Count(c, name)
    IN  IF EditorOutcome(env) = "ok" THEN c1 ELSE Count(c1, "editorFailed")

CountCompile(c, name, ok) ==
    LET c1 == Count(c, name)
    IN  IF ok THEN Count(c1, "compileOk") ELSE c1

Outcome(name, ok) == IF ok THEN <<name, "ok">> ELSE <<name, "fail">>

\* the editor variable while no run of the CodeEditor is followed step by step
IdleEditor == [pc |-> "idle", keys |-> {}, historyFile |-> TRUE, exitCode |-> 0,
               costError |-> FALSE, filesToEdit |-> <<>>, modelArg |-> "unset",
               command |-> FALSE, commandFiles |-> <<>>, costAdded |-> FALSE,
               thrown |-> "none"]

----------------------------------------------------------------------------
Init ==
    /\ pc = "start"
    /\ projectInfo \in [supplied : BOOLEAN, staticAnalysis : BOOLEAN,
                        test : BOOLEAN, languageTools : BOOLEAN]
    /\ detected = 0
    /\ initialSelectedFiles = <<>>
    /\ files = <<>>
    /\ editRequirements = NoRequirements
    /\ errorAnalysis = Null
    /\ compileErrorOutput = NoText
    /\ i = 0
    /\ thrown = NoText
    /\ staticErrorFiles = <<>>
    /\ extractedFrom = NoText
    /\ lastAnalyze = NoAnalyze
    /\ testErrorOutput = NoText
    /\ testErrorAnalysis = Null
    /\ testLoopResult = Null
    /\ result = "running"
    /\ calls = NoCalls
    /\ round = <<>>
    /\ lastEdit = NoEdit
    /\ installed = <<>>
    /\ saResults = <<>>
    /\ testResults = <<>>
    /\ editor = IdleEditor

----------------------------------------------------------------------------
(* runCodeEditWorkflow, lines 32-62 *)

\* ResolveProjectInfo raising only when nothing was detected
ResolveProjectInfo_AtLeastOne ==
    /\ pc = "start"
    /\ \E n \in 0..MaxDetected :
          IF projectInfo.supplied
          THEN /\ pc' = "selectFilesToEdit"
               /\ UNCHANGED <<detected, calls, result>>
          ELSE /\ detected' = n
               /\ calls' = Count(calls, "detectProjectInfo")
               /\ IF n < 1
                  THEN pc' = "done" /\ result' = "raised:detection"
                  ELSE pc' = "selectFilesToEdit" /\ UNCHANGED result
    /\ UNCHANGED <<projectInfo, editor, initialSelectedFiles, editVars, i,
                   thrown, saVars, testVars, round, lastEdit, lastAnalyze>>

\* lines 33-37
ResolveProjectInfo ==
    /\ pc = "start"
    /\ \E n \in 0..MaxDetected :
          IF projectInfo.supplied
          THEN /\ pc' = "selectFilesToEdit"
               /\ UNCHANGED <<detected, calls, result>>
          ELSE /\ detected' = n
               /\ calls' = Count(calls, "detectProjectInfo")
               /\ IF n # 1
                  THEN pc' = "done" /\ result' = "raised:detection"
                  ELSE pc' = "selectFilesToEdit" /\ UNCHANGED result
    /\ UNCHANGED <<projectInfo, editor, initialSelectedFiles, editVars, i,
                   thrown, saVars, testVars, round, lastEdit, lastAnalyze>>

\* lines 43-47
SelectFilesToEdit ==
    /\ pc = "selectFilesToEdit"
    /\ \E secondary \in Prefixes(SecondaryPool, MaxSecondary) :
          initialSelectedFiles' = PrimaryPool \o secondary
    /\ calls' = Count(calls, "selectFilesToEdit")
    /\ pc' = "generateText"
    /\ UNCHANGED <<setupVars, editVars, i, thrown, saVars, testVars, result,
                   round, lastEdit, lastAnalyze>>

\* lines 49-69: the implementation specification, then the loop is entered
GenerateImplementationRequirements ==
    /\ pc = "generateText"
    /\ calls' = Count(calls, "generateText")
    /\ errorAnalysis' = Null
    /\ compileErrorOutput' = NoText
    /\ i' = 0
    /\ pc' = "editRound"
    /\ UNCHANGED <<setupVars, initialSelectedFiles, files, editRequirements,
                   installed, thrown, saVars, testVars, result, round,
                   lastEdit, lastAnalyze>>

----------------------------------------------------------------------------
(* The edit/compile loop, lines 67-101 *)

\* lines 69-80: the start of a round, up to the first await.  Reading
\* errorAnalysis.installPackages (line 76, no optional chaining) throws a
\* TypeError when errorAnalysis is null; the throw is inside the try.
EditRoundStart ==
    /\ pc = "editRound"
    /\ i < MAX_ATTEMPTS
    /\ round' = <<>>
    /\ files' = initialSelectedFiles \o errorAnalysis.additionalFiles
    /\ editRequirements' =
          IF errorAnalysis.null
          THEN Requirements("implementation", NoText)
          ELSE Requirements("implementation", compileErrorOutput)
    /\ IF errorAnalysis.null
       THEN /\ thrown' = TypeErrorMessage
            /\ pc' = "editCatch"
            /\ installed' = <<>>
            /\ UNCHANGED calls
       ELSE /\ installed' = IF projectInfo.languageTools
                            THEN errorAnalysis.installPackages ELSE <<>>
            /\ calls' = [calls EXCEPT !.installPackage = @ + Len(installed')]
            /\ pc' = "editFiles"
            /\ UNCHANGED thrown
    /\ UNCHANGED <<setupVars, initialSelectedFiles, errorAnalysis,
                   compileErrorOutput, i, saVars, testVars, result, lastEdit,
                   lastAnalyze>>

\* lines 83-85: on the first round the baseline compile, then the CodeEditor
EditFiles ==
    /\ pc = "editFiles"
    /\ \E ok \in BOOLEAN, env \in EditorEnv :
          IF i = 0 /\ ~ok
          THEN /\ calls' = CountCompile(calls, "baselineCompile", FALSE)
               /\ round' = Append(round, Outcome("compile", FALSE))
               /\ thrown' = CompileOutput
               /\ pc' = "editCatch"
               /\ UNCHANGED lastEdit
          ELSE /\ calls' = CountEdit(IF i = 0
                                     THEN CountCompile(calls, "baselineCompile", TRUE)
                                     ELSE calls,
                                     "editEditor", env)
               /\ round' = round
                            \o (IF i = 0 THEN <<Outcome("compile", TRUE)>> ELSE <<>>)
                            \o <<Outcome("editor", EditorOutcome(env) = "ok")>>
               /\ lastEdit' = Edit("edit", editRequirements, files, env)
               /\ IF EditorOutcome(env) = "ok"
                  THEN pc' = "getFilesAdded" /\ UNCHANGED thrown
                  ELSE pc' = "editCatch" /\ thrown' = EditorOutcome(env)
    /\ UNCHANGED <<setupVars, initialSelectedFiles, editVars, i, saVars,
                   testVars, result, lastAnalyze>>

\* GetFilesAddedInHeadCommit assigning the new files instead of pushing them
GetFilesAddedInHeadCommit_Replace ==
    /\ pc = "getFilesAdded"
    /\ \E newFiles \in Prefixes(NewFilePool, MaxNewFiles) :
          /\ initialSelectedFiles' = newFiles
          /\ files' = files \o newFiles
    /\ calls' = Count(calls, "getFilesAddedInHeadCommit")
    /\ pc' = "compile"
    /\ UNCHANGED <<setupVars, editRequirements, errorAnalysis,
                   compileErrorOutput, installed, i, thrown, saVars, testVars,
                   result, round, lastEdit, lastAnalyze>>

\* lines 87-89
GetFilesAddedInHeadCommit ==
    /\ pc = "getFilesAdded"
    /\ \E newFiles \in Prefixes(NewFilePool, MaxNewFiles) :
          /\ initialSelectedFiles' = initialSelectedFiles \o newFiles
          /\ files' = files \o newFiles
    /\ calls' = Count(calls, "getFilesAddedInHeadCommit")
    /\ pc' = "compile"
    /\ UNCHANGED <<setupVars, editRequirements, errorAnalysis,
                   compileErrorOutput, installed, i, thrown, saVars, testVars,
                   result, round, lastEdit, lastAnalyze>>

\* lines 91-93
PostEditCompile ==
    /\ pc = "compile"
    /\ \E ok \in BOOLEAN :
          /\ calls' = LET c == CountCompile(calls, "postEditCompile", ok)
                      IN  IF ok THEN Count(c, "postEditCompileOk") ELSE c
          /\ round' = Append(round, Outcome("compile", ok))
          /\ IF ok
             THEN /\ errorAnalysis' = Null
                  /\ pc' = "compileGate"
                  /\ UNCHANGED thrown
             ELSE /\ thrown' = CompileOutput
                  /\ pc' = "editCatch"
                  /\ UNCHANGED errorAnalysis
    /\ UNCHANGED <<setupVars, initialSelectedFiles, files, editRequirements,
                   compileErrorOutput, installed, i, saVars, testVars, result,
                   lastEdit, lastAnalyze>>

\* lines 94-100, and the loop's i++ and test
EditCatch ==
    /\ pc = "editCatch"
    /\ compileErrorOutput' = thrown
    /\ thrown' = NoText
    /\ \E analysis \in analyzeCompileErrors : errorAnalysis' = analysis
    /\ calls' = Count(calls, "editAnalyze")
    /\ lastAnalyze' = [stage |-> "edit", output |-> thrown,
                       candidateFiles |-> initialSelectedFiles,
                       diagnosis |-> errorAnalysis']
    /\ round' = Append(round, Outcome("analyze", TRUE))
    /\ i' = i + 1
    /\ pc' = IF i + 1 < MAX_ATTEMPTS THEN "editRound" ELSE "compileGate"
    /\ UNCHANGED <<setupVars, initialSelectedFiles, files, editRequirements,
                   installed, saVars, testVars, result, lastEdit>>

\* CompileGate without the test of projectInfo.staticAnalysis at line 105
CompileGate_IgnoreStaticFlag ==
    /\ pc = "compileGate"
    /\ IF ~errorAnalysis.null
       THEN pc' = "done" /\ result' = "returned" /\ UNCHANGED i
       ELSE pc' = "staticAnalysis" /\ i' = 0 /\ UNCHANGED result
    /\ round' = <<>>
    /\ UNCHANGED <<setupVars, initialSelectedFiles, editVars, thrown, saVars,
                   testVars, calls, lastEdit, lastAnalyze>>

\* lines 103-107
CompileGate ==
    /\ pc = "compileGate"
    /\ IF ~errorAnalysis.null
       THEN pc' = "done" /\ result' = "returned" /\ UNCHANGED i
       ELSE IF projectInfo.staticAnalysis
       THEN pc' = "staticAnalysis" /\ i' = 0 /\ UNCHANGED result
       ELSE pc' = "testLoop" /\ UNCHANGED <<i, result>>
    /\ round' = <<>>
    /\ UNCHANGED <<setupVars, initialSelectedFiles, editVars, thrown, saVars,
                   testVars, calls, lastEdit, lastAnalyze>>

----------------------------------------------------------------------------
(* The static-analysis loop, lines 105-127 *)

\* line 110 and runStaticAnalysis, lines 161-168
RunStaticAnalysis ==
    /\ pc = "staticAnalysis"
    /\ i < STATIC_ANALYSIS_MAX_ATTEMPTS
    /\ \E ok \in BOOLEAN :
          IF ~projectInfo.staticAnalysis
          THEN /\ pc' = "saCommit"
               /\ round' = <<>>
               /\ UNCHANGED <<calls, saResults, thrown>>
          ELSE /\ calls' = Count(calls, "runStaticAnalysis")
               /\ saResults' = Append(saResults, ok)
               /\ round' = <<Outcome("staticAnalysis", ok)>>
               /\ pc' = IF ok THEN "saCommit" ELSE "saCatch"
               /\ thrown' = IF ok THEN thrown ELSE StaticAnalysisOutput
    /\ UNCHANGED <<setupVars, initialSelectedFiles, editVars, i,
                   staticErrorFiles, extractedFrom, testVars, result,
                   lastEdit, lastAnalyze>>

\* lines 111-112: commit, break
CommitStaticAnalysis ==
    /\ pc = "saCommit"
    /\ calls' = Count(calls, "commit")
    /\ round' = Append(round, Outcome("commit", TRUE))
    /\ pc' = "testLoop"
    /\ UNCHANGED <<setupVars, initialSelectedFiles, editVars, i, thrown,
                   saVars, testVars, result, lastEdit, lastAnalyze>>

\* StaticAnalysisCatch rethrowing the error of the last round
StaticAnalysisCatch_Rethrow ==
    /\ pc = "saCatch"
    /\ round' = Append(round, Outcome("commit", TRUE))
    /\ calls' = Count(calls, "commit")
    /\ IF i = STATIC_ANALYSIS_MAX_ATTEMPTS - 1
       THEN /\ result' = "raised:staticAnalysis"
            /\ pc' = "done"
            /\ UNCHANGED <<i, thrown>>
       ELSE /\ pc' = "extractFilenames"
            /\ thrown' = NoText
            /\ UNCHANGED <<i, result>>
    /\ UNCHANGED <<setupVars, initialSelectedFiles, editVars, saVars,
                   testVars, lastEdit, lastAnalyze>>

\* lines 113-118: the catch commits, then warns on the last round
StaticAnalysisCatch ==
    /\ pc = "saCatch"
    /\ thrown' = NoText
    /\ round' = Append(round, Outcome("commit", TRUE))
    /\ IF i = STATIC_ANALYSIS_MAX_ATTEMPTS - 1
       THEN /\ calls' = Count(Count(calls, "commit"), "warn")
            /\ i' = i + 1
            /\ pc' = "testLoop"
       ELSE /\ calls' = Count(calls, "commit")
            /\ pc' = "extractFilenames"
            /\ UNCHANGED i
    /\ UNCHANGED <<setupVars, initialSelectedFiles, editVars, saVars,
                   testVars, result, lastEdit, lastAnalyze>>

\* line 119 and extractFilenames, lines 209-219
ExtractFilenames ==
    /\ pc = "extractFilenames"
    /\ extractedFrom' = compileErrorOutput
    /\ \E names \in Prefixes(ExtractPool, MaxExtracted) : staticErrorFiles' = names
    /\ calls' = Count(calls, "extractFilenames")
    /\ round' = Append(round, Outcome("extractFilenames", TRUE))
    /\ pc' = "staticAnalysisEdit"
    /\ UNCHANGED <<setupVars, initialSelectedFiles, editVars, i, thrown,
                   saResults, testVars, result, lastEdit, lastAnalyze>>

\* lines 120-123: the repair edit runs inside the catch block, so an error
\* it throws leaves runCodeEditWorkflow
StaticAnalysisEdit ==
    /\ pc = "staticAnalysisEdit"
    /\ \E env \in EditorEnv :
          /\ calls' = CountEdit(calls, "staticEditor", env)
          /\ lastEdit' = Edit("staticAnalysis",
                              Requirements("staticAnalysis", compileErrorOutput),
                              staticErrorFiles, env)
          /\ round' = Append(round, Outcome("editor", EditorOutcome(env) = "ok"))
          /\ IF EditorOutcome(env) = "ok"
             THEN /\ i' = i + 1
                  /\ pc' = IF i + 1 < STATIC_ANALYSIS_MAX_ATTEMPTS
                           THEN "staticAnalysis" ELSE "testLoop"
                  /\ UNCHANGED <<result, thrown>>
             ELSE /\ thrown' = EditorOutcome(env)
                  /\ result' = "raised:editor"
                  /\ pc' = "done"
                  /\ UNCHANGED i
    /\ UNCHANGED <<setupVars, initialSelectedFiles, editVars, saVars,
                   testVars, lastAnalyze>>

----------------------------------------------------------------------------
(* testLoop, lines 179-200, called at line 129 *)

\* TestLoopEntry without the test of projectInfo.test at line 180
TestLoopEntry_NoCheck ==
    /\ pc = "testLoop"
    /\ round' = <<>>
    /\ testErrorOutput' = NoText
    /\ testErrorAnalysis' = Null
    /\ i' = 0
    /\ pc' = "testEdit"
    /\ UNCHANGED <<testLoopResult, result>>
    /\ UNCHANGED <<setupVars, initialSelectedFiles, editVars, thrown, saVars,
                   testResults, calls, lastEdit, lastAnalyze>>

\* lines 129 and 180-183
TestLoopEntry ==
    /\ pc = "testLoop"
    /\ round' = <<>>
    /\ IF ~projectInfo.test
       THEN /\ testLoopResult' = Null
            /\ result' = "returned"
            /\ pc' = "done"
            /\ UNCHANGED <<i, testErrorOutput, testErrorAnalysis>>
       ELSE /\ testErrorOutput' = NoText
            /\ testErrorAnalysis' = Null
            /\ i' = 0
            /\ pc' = "testEdit"
            /\ UNCHANGED <<testLoopResult, result>>
    /\ UNCHANGED <<setupVars, initialSelectedFiles, editVars, thrown, saVars,
                   testResults, calls, lastEdit, lastAnalyze>>

\* TestEdit going from the edit straight to the test run, without line 189
TestEdit_SkipCompile ==
    /\ pc = "testEdit"
    /\ i < TestLoop_MAX_ATTEMPTS
    /\ \E env \in EditorEnv :
          /\ calls' = CountEdit(calls, "testEditor", env)
          /\ lastEdit' = Edit("test", Requirements("test", NoText),
                              initialSelectedFiles, env)
          /\ round' = <<Outcome("editor", EditorOutcome(env) = "ok")>>
          /\ IF EditorOutcome(env) = "ok"
             THEN pc' = "runTests" /\ UNCHANGED thrown
             ELSE pc' = "testCatch" /\ thrown' = EditorOutcome(env)
    /\ UNCHANGED <<setupVars, initialSelectedFiles, editVars, i, saVars,
                   testVars, result, lastAnalyze>>

\* lines 186-188
TestEdit ==
    /\ pc = "testEdit"
    /\ i < TestLoop_MAX_ATTEMPTS
    /\ \E env \in EditorEnv :
          /\ calls' = CountEdit(calls, "testEditor", env)
          /\ lastEdit' = Edit("test", Requirements("test", NoText),
                              initialSelectedFiles, env)
          /\ round' = <<Outcome("editor", EditorOutcome(env) = "ok")>>
          /\ IF EditorOutcome(env) = "ok"
             THEN pc' = "testCompile" /\ UNCHANGED thrown
             ELSE pc' = "testCatch" /\ thrown' = EditorOutcome(env)
    /\ UNCHANGED <<setupVars, initialSelectedFiles, editVars, i, saVars,
                   testVars, result, lastAnalyze>>

\* line 189
TestCompile ==
    /\ pc = "testCompile"
    /\ \E ok \in BOOLEAN :
          /\ calls' = CountCompile(calls, "testCompile", ok)
          /\ round' = Append(round, Outcome("compile", ok))
          /\ IF ok
             THEN pc' = "runTests" /\ UNCHANGED thrown
             ELSE pc' = "testCatch" /\ thrown' = CompileOutput
    /\ UNCHANGED <<setupVars, initialSelectedFiles, editVars, i, saVars,
                   testVars, result, lastEdit, lastAnalyze>>

\* RunTests without the break at line 192
RunTests_NoBreak ==
    /\ pc = "runTests"
    /\ \E ok \in BOOLEAN :
          /\ calls' = Count(calls, "runTests")
          /\ testResults' = Append(testResults, ok)
          /\ round' = Append(round, Outcome("test", ok))
          /\ IF ok
             THEN /\ testErrorAnalysis' = Null
                  /\ i' = i + 1
                  /\ pc' = IF i + 1 < TestLoop_MAX_ATTEMPTS
                           THEN "testEdit" ELSE "testReturn"
                  /\ UNCHANGED thrown
             ELSE /\ thrown' = TestOutput
                  /\ pc' = "testCatch"
                  /\ UNCHANGED <<testErrorAnalysis, i>>
    /\ UNCHANGED <<setupVars, initialSelectedFiles, editVars, saVars,
                   testErrorOutput, testLoopResult, result, lastEdit,
                   lastAnalyze>>

\* lines 190-192 and runTests, lines 170-177
RunTests ==
    /\ pc = "runTests"
    /\ \E ok \in BOOLEAN :
          IF ~projectInfo.test \/ ok
          THEN /\ testErrorAnalysis' = Null
               /\ pc' = "testReturn"
               /\ calls' = IF projectInfo.test THEN Count(calls, "runTests") ELSE calls
               /\ testResults' = IF projectInfo.test
                                 THEN Append(testResults, TRUE) ELSE testResults
               /\ round' = IF projectInfo.test
                           THEN Append(round, Outcome("test", TRUE)) ELSE round
               /\ UNCHANGED thrown
          ELSE /\ calls' = Count(calls, "runTests")
               /\ testResults' = Append(testResults, FALSE)
               /\ round' = Append(round, Outcome("test", FALSE))
               /\ thrown' = TestOutput
               /\ pc' = "testCatch"
               /\ UNCHANGED testErrorAnalysis
    /\ UNCHANGED <<setupVars, initialSelectedFiles, editVars, i, saVars,
                   testErrorOutput, testLoopResult, result, lastEdit,
                   lastAnalyze>>

\* TestCatch retrying from the compile, without a new edit
TestCatch_SkipEdit ==
    /\ pc = "testCatch"
    /\ testErrorOutput' = thrown
    /\ thrown' = NoText
    /\ \E analysis \in analyzeCompileErrors : testErrorAnalysis' = analysis
    /\ lastAnalyze' = [stage |-> "test", output |-> thrown,
                       candidateFiles |-> initialSelectedFiles,
                       diagnosis |-> testErrorAnalysis']
    /\ calls' = Count(calls, "testAnalyze")
    /\ round' = <<>>
    /\ i' = i + 1
    /\ pc' = IF i + 1 < TestLoop_MAX_ATTEMPTS THEN "testCompile" ELSE "testReturn"
    /\ UNCHANGED <<setupVars, initialSelectedFiles, editVars, saVars,
                   testLoopResult, testResults, result, lastEdit>>

\* lines 193-197, and the loop's i++ and test
TestCatch ==
    /\ pc = "testCatch"
    /\ testErrorOutput' = thrown
    /\ thrown' = NoText
    /\ \E analysis \in analyzeCompileErrors : testErrorAnalysis' = analysis
    /\ lastAnalyze' = [stage |-> "test", output |-> thrown,
                       candidateFiles |-> initialSelectedFiles,
                       diagnosis |-> testErrorAnalysis']
    /\ calls' = Count(calls, "testAnalyze")
    /\ round' = Append(round, Outcome("analyze", TRUE))
    /\ i' = i + 1
    /\ pc' = IF i + 1 < TestLoop_MAX_ATTEMPTS THEN "testEdit" ELSE "testReturn"
    /\ UNCHANGED <<setupVars, initialSelectedFiles, editVars, saVars,
                   testLoopResult, testResults, result, lastEdit>>

\* TestLoopReturn with the caller raising on a returned diagnosis
TestLoopReturn_Raise ==
    /\ pc = "testReturn"
    /\ testLoopResult' = testErrorAnalysis
    /\ result' = IF testErrorAnalysis.null THEN "returned" ELSE "raised:tests"
    /\ pc' = "done"
    /\ UNCHANGED <<setupVars, initialSelectedFiles, editVars, i, thrown,
                   saVars, testErrorOutput, testErrorAnalysis, testResults,
                   calls, round, lastEdit, lastAnalyze>>

\* line 199, then lines 129-130: testLoop returns its errorAnalysis, which
\* runCodeEditWorkflow drops
TestLoopReturn ==
    /\ pc = "testReturn"
    /\ testLoopResult' = testErrorAnalysis
    /\ result' = "returned"
    /\ pc' = "done"
    /\ UNCHANGED <<setupVars, initialSelectedFiles, editVars, i, thrown,
                   saVars, testErrorOutput, testErrorAnalysis, testResults,
                   calls, round, lastEdit, lastAnalyze>>

----------------------------------------------------------------------------
Next ==
    \/ ResolveProjectInfo
    \/ SelectFilesToEdit
    \/ GenerateImplementationRequirements
    \/ EditRoundStart
    \/ EditFiles
    \/ GetFilesAddedInHeadCommit
    \/ PostEditCompile
    \/ EditCatch
    \/ CompileGate
    \/ RunStaticAnalysis
    \/ CommitStaticAnalysis
    \/ StaticAnalysisCatch
    \/ ExtractFilenames
    \/ StaticAnalysisEdit
    \/ TestLoopEntry
    \/ TestEdit
    \/ TestCompile
    \/ RunTests
    \/ TestCatch
    \/ TestLoopReturn

Spec == Init /\ [][Next]_vars

\* every awaited call returns, so the function always takes its next step
FairSpec == Spec /\ WF_vars(Next)

TypeOK ==
    /\ pc \in {"start", "selectFilesToEdit", "generateText", "editRound",
               "editFiles", "getFilesAdded", "compile", "editCatch",
               "compileGate", "staticAnalysis", "saCommit", "saCatch",
               "extractFilenames", "staticAnalysisEdit", "testLoop",
               "testEdit", "testCompile", "runTests", "testCatch",
               "testReturn", "done"}
    /\ result \in {"running", "returned", "raised:detection", "raised:editor"}
    /\ i \in 0..2
    /\ (pc = "done") = (result # "running")

----------------------------------------------------------------------------
(* CodeEditor.editFilesToMeetRequirements step by step, codeEditor.ts 24-106 *)

workflowVars == <<pc, projectInfo, detected, initialSelectedFiles, files,
                  editRequirements, errorAnalysis, compileErrorOutput, i,
                  thrown, staticErrorFiles, testErrorOutput,
                  testErrorAnalysis, testLoopResult, result, calls, round,
                  lastEdit, installed, saResults, testResults, extractedFrom,
                  lastAnalyze>>

\* the keys found in the user's llmConfig or in the process environment
EditorKeys == SUBSET {"anthropic", "deepseek", "openai"}

\* file lists handed to the editor, some with blank entries
EditorFiles == { <<>>, <<"a.ts">>, <<"a.ts", "">>, <<" ", "b.ts">> }

\* file?.trim().length is 0 (line 36)
IsBlank(file) == file \in {"", " "}

NotBlank(file) == ~IsBlank(file)

\* what the workflow's model of the editor sees of one run
EnvOf(e) == [key |-> e.keys # {}, historyFile |-> e.historyFile,
             exitCode |-> e.exitCode, costError |-> e.costError]

EditorInit ==
    /\ pc = "start"
    /\ projectInfo = [supplied |-> TRUE, staticAnalysis |-> FALSE,
                      test |-> FALSE, languageTools |-> FALSE]
    /\ detected = 0
    /\ initialSelectedFiles = <<>>
    /\ files = <<>>
    /\ editRequirements = NoRequirements
    /\ errorAnalysis = Null
    /\ compileErrorOutput = NoText
    /\ i = 0
    /\ thrown = NoText
    /\ staticErrorFiles = <<>>
    /\ extractedFrom = NoText
    /\ lastAnalyze = NoAnalyze
    /\ testErrorOutput = NoText
    /\ testErrorAnalysis = Null
    /\ testLoopResult = Null
    /\ result = "running"
    /\ calls = NoCalls
    /\ round = <<>>
    /\ lastEdit = NoEdit
    /\ installed = <<>>
    /\ saResults = <<>>
    /\ testResults = <<>>
    /\ \E keys \in EditorKeys, historyFile \in BOOLEAN, exitCode \in 0..MaxExitCode,
          costError \in BOOLEAN, filesToEdit \in EditorFiles :
          editor = [IdleEditor EXCEPT !.pc = "writeMessageFile", !.keys = keys,
                                      !.historyFile = historyFile,
                                      !.exitCode = exitCode,
                                      !.costError = costError,
                                      !.filesToEdit = filesToEdit]

\* lines 34-36: the message file is written, blank entries are dropped
EditorWriteMessageFile ==
    /\ editor.pc = "writeMessageFile"
    /\ editor' = [editor EXCEPT !.pc = "selectModel",
                                !.filesToEdit = SelectSeq(@, NotBlank)]
    /\ UNCHANGED workflowVars

\* lines 39-65
EditorSelectModel ==
    /\ editor.pc = "selectModel"
    /\ editor' =
          IF "anthropic" \in editor.keys
          THEN [editor EXCEPT !.pc = "historyFile", !.modelArg = "--sonnet"]
          ELSE IF "deepseek" \in editor.keys
          THEN [editor EXCEPT !.pc = "historyFile",
                              !.modelArg = "--model deepseek/deepseek-coder"]
          ELSE IF "openai" \in editor.keys
          THEN [editor EXCEPT !.pc = "historyFile", !.modelArg = ""]
          ELSE [editor EXCEPT !.pc = "done", !.thrown =
                  "Aider code editing requires a key for Anthropic, Deepseek or OpenAI"]
    /\ UNCHANGED workflowVars

\* lines 67-77
EditorHistoryFile ==
    /\ editor.pc = "historyFile"
    /\ editor' =
          IF editor.historyFile
          THEN [editor EXCEPT !.pc = "execCommand"]
          ELSE [editor EXCEPT !.pc = "done", !.thrown =
                  "Fatal Error reading/writing Aider llmH-history-file"]
    /\ UNCHANGED workflowVars

\* lines 79-84
EditorExecCommand ==
    /\ editor.pc = "execCommand"
    /\ editor' = [editor EXCEPT !.pc = "cost", !.command = TRUE,
                                !.commandFiles = editor.filesToEdit]
    /\ UNCHANGED workflowVars

\* the cost accounting rethrowing its error instead of logging it
EditorCost_Rethrow ==
    /\ editor.pc = "cost"
    /\ editor' =
          IF editor.costError
          THEN [editor EXCEPT !.pc = "done", !.thrown = "<cost accounting error>"]
          ELSE [editor EXCEPT !.pc = "finish", !.costAdded = TRUE]
    /\ UNCHANGED workflowVars

\* lines 86-103: an error of the cost accounting is logged and dropped
EditorCost ==
    /\ editor.pc = "cost"
    /\ editor' =
          IF editor.costError
          THEN [editor EXCEPT !.pc = "finish"]
          ELSE [editor EXCEPT !.pc = "finish", !.costAdded = TRUE]
    /\ UNCHANGED workflowVars

\* line 105
EditorFinish ==
    /\ editor.pc = "finish"
    /\ editor' =
          IF editor.exitCode > 0
          THEN [editor EXCEPT !.pc = "done", !.thrown = "<aider stdout stderr>"]
          ELSE [editor EXCEPT !.pc = "done"]
    /\ UNCHANGED workflowVars

EditorNext ==
    \/ EditorWriteMessageFile
    \/ EditorSelectModel
    \/ EditorHistoryFile
    \/ EditorExecCommand
    \/ EditorCost
    \/ EditorFinish

EditorSpec == EditorInit /\ [][EditorNext]_vars

----------------------------------------------------------------------------
(* Vocabulary of the properties *)

Range(seq) == { seq[k] : k \in 1..Len(seq) }

\* the edit/compile loop was entered and has ended
EditLoopEnded ==
    /\ calls.generateText = 1
    /\ pc \notin {"editRound", "editFiles", "getFilesAdded", "compile", "editCatch"}

\* calls made by the static-analysis stage and by the test stage
StaticStageCalls ==
    calls.runStaticAnalysis + calls.commit + calls.extractFilenames + calls.staticEditor

TestStageCalls ==
    calls.testEditor + calls.testCompile + calls.runTests + calls.testAnalyze

InLaterStage ==
    pc \in {"staticAnalysis", "saCommit", "saCatch", "extractFilenames",
            "staticAnalysisEdit", "testLoop", "testEdit", "testCompile",
            "runTests", "testCatch", "testReturn"}

\* compile runs of the edit/compile loop
EditLoopCompiles == calls.baselineCompile + calls.postEditCompile

\* compile runs of the whole workflow
AllCompiles == EditLoopCompiles + calls.testCompile

Raised == result \notin {"running", "returned"}

----------------------------------------------------------------------------
(* C1: compile gate.  The static-analysis command, the static-analysis     *)
(* commit and every test-stage call are made only after a successful       *)
(* post-edit compile of the edit/compile loop, whatever the error analyser *)
(* returns; without one the workflow stops after the loop.                 *)
C1_CompileGate ==
    (InLaterStage \/ StaticStageCalls + TestStageCalls > 0)
        => calls.postEditCompileOk > 0

(* C2: scenario B.  When the compile command is run and fails every time   *)
(* and no editor invocation fails, the edit/compile loop ends after        *)
(* exactly 2 editor invocations and 3 compile runs (1 baseline, 2          *)
(* post-edit), and no later stage is entered.                              *)
C2_ScenarioB ==
    (EditLoopEnded /\ EditLoopCompiles > 0 /\ calls.compileOk = 0
                   /\ calls.editorFailed = 0)
        => /\ calls.editEditor = 2
           /\ EditLoopCompiles = 3
           /\ calls.baselineCompile = 1
           /\ ~InLaterStage
           /\ StaticStageCalls + TestStageCalls = 0

(* C3: the baseline compile runs exactly once in every run that reaches    *)
(* the edit/compile loop: before the first editor invocation of the loop,  *)
(* and never again.                                                        *)
C3_BaselineOnce ==
    /\ calls.baselineCompile <= 1
    /\ (calls.editEditor > 0 \/ EditLoopEnded) => calls.baselineCompile = 1

(* C4: runCodeEditWorkflow raises only on project-detection ambiguity;     *)
(* no failure of the CodeEditor or of the compile, static-analysis or test *)
(* command, in any stage, leaves the workflow as an error.  (Stated for    *)
(* the runs whose post-edit compile succeeded.)                            *)
C4_OnlyDetectionRaises ==
    (Raised /\ (calls.generateText = 0 \/ calls.postEditCompileOk > 0))
        => result = "raised:detection"

(* C5: when the static-analysis stage has ended, the number of commits     *)
(* equals the number of static-analysis runs, which is 1 if the first run  *)
(* passed and 2 otherwise; every commit directly follows its round's run.  *)
(* (Stated for the runs whose post-edit compile succeeded.)                *)
StaticStageEnded ==
    /\ calls.postEditCompileOk > 0
    /\ calls.runStaticAnalysis > 0
    /\ pc \in {"testLoop", "testEdit", "testCompile", "runTests", "testCatch",
               "testReturn", "done"}

C5_CommitEveryRound ==
    /\ StaticStageEnded =>
          /\ calls.commit = calls.runStaticAnalysis
          /\ calls.runStaticAnalysis = IF saResults[1] THEN 1 ELSE 2
    /\ \A k \in 1..Len(round) :
          round[k][1] = "commit" => k > 1 /\ round[k - 1][1] = "staticAnalysis"

(* C6: scenario C.  With a test command configured, once the               *)
(* static-analysis command has failed in round 1 and again in round 2, the *)
(* workflow has not raised; after the second failure is handled there are  *)
(* exactly two commits and one warning and the workflow is in the test     *)
(* loop, whose editor has been invoked by the time the workflow ends.      *)
C6_ScenarioC ==
    (projectInfo.test /\ saResults = <<FALSE, FALSE>>)
        => /\ ~Raised
           /\ calls.commit <= 2
           /\ pc # "saCatch" =>
                 /\ calls.commit = 2
                 /\ calls.warn = 1
                 /\ pc \in {"testLoop", "testEdit", "testCompile", "runTests",
                            "testCatch", "testReturn", "done"}
                 /\ pc \notin {"testLoop", "testEdit"} => calls.testEditor >= 1

C6_Witness ==
    /\ pc = "done"
    /\ projectInfo.test
    /\ saResults = <<FALSE, FALSE>>
    /\ calls.postEditCompileOk = 1
    /\ calls.commit = 2
    /\ calls.warn = 1
    /\ calls.testEditor >= 1
    /\ result = "returned"

(* C7: scenario A.  One project, a test command, no static analysis, no    *)
(* editor or compile failure anywhere, the test command failing once and   *)
(* then passing: the workflow returns without raising after exactly 2      *)
(* test-stage compile runs and 2 test-stage editor invocations.            *)
ScenarioA ==
    /\ projectInfo.supplied \/ detected = 1
    /\ ~projectInfo.staticAnalysis
    /\ projectInfo.test
    /\ calls.editorFailed = 0
    /\ calls.compileOk = AllCompiles
    /\ testResults = <<FALSE, TRUE>>

C7_ScenarioA ==
    (pc = "done" /\ ScenarioA)
        => /\ result = "returned"
           /\ calls.testCompile = 2
           /\ calls.testEditor = 2

C7_Witness ==
    /\ pc = "done"
    /\ ScenarioA
    /\ calls.postEditCompileOk = 1
    /\ calls.testCompile = 2
    /\ calls.testEditor = 2

(* C8: in a retry round of the test loop, the file list given to the       *)
(* CodeEditor contains every additional file named by the diagnosis of the *)
(* failed round before it.  (Stated for the runs whose post-edit compile   *)
(* succeeded.)                                                             *)
C8_NextRoundIncludesFile ==
    (/\ calls.postEditCompileOk > 0
     /\ lastEdit.stage = "test"
     /\ calls.testEditor = 2
     /\ pc \in {"testCompile", "testCatch"}
     /\ Len(round) = 1
     /\ ~testErrorAnalysis.null)
        => Range(testErrorAnalysis.additionalFiles) \subseteq Range(lastEdit.filesToEdit)

(* C9: every run of the test command is preceded, in its round, by a       *)
(* CodeEditor invocation and then a successful compile; a compile failure  *)
(* in a test round skips the round's test run and is handed to the error   *)
(* analyser like any failure of the round, and the loop moves on to its    *)
(* next round.                                                             *)
InTestRound == lastEdit.stage = "test" /\ round # <<>>

C9_TestRunPreceded ==
    calls'.runTests # calls.runTests
        => round = << <<"editor", "ok">>, <<"compile", "ok">> >>

C9_CatchAnalyses ==
    pc = "testCatch"
        => /\ calls'.testAnalyze = calls.testAnalyze + 1
           /\ calls'.runTests = calls.runTests
           /\ lastAnalyze' = [stage |-> "test", output |-> thrown,
                              candidateFiles |-> initialSelectedFiles,
                              diagnosis |-> testErrorAnalysis']
           /\ testErrorOutput' = thrown
           /\ i' = i + 1
           /\ pc' = IF i + 1 < TestLoop_MAX_ATTEMPTS THEN "testEdit" ELSE "testReturn"

C9_CompileFailureCaught ==
    (InTestRound /\ round[Len(round)] = <<"compile", "fail">>)
        => pc = "testCatch" /\ thrown = CompileOutput

C9_RecompileBeforeTest ==
    /\ [][C9_TestRunPreceded /\ C9_CatchAnalyses]_vars
    /\ []C9_CompileFailureCaught

C9_Witness ==
    /\ testErrorOutput = CompileOutput
    /\ i = 1
    /\ calls.testEditor = 2
    /\ calls.testCompile = 2
    /\ calls.runTests = 1
    /\ round = << <<"editor", "ok">>, <<"compile", "ok">>, <<"test", "ok">> >>

(* C10: with no static-analysis command configured, no static-analysis     *)
(* run, commit, file-name extraction, repair edit or warning ever happens, *)
(* and a passed compile gate leads directly to the test loop.              *)
C10_NoStaticCalls ==
    ~projectInfo.staticAnalysis => StaticStageCalls + calls.warn = 0

C10_GateToTestLoop ==
    (pc = "compileGate" /\ ~projectInfo.staticAnalysis /\ errorAnalysis.null)
        => pc' = "testLoop"

C10_NoStaticAnalysis ==
    /\ []C10_NoStaticCalls
    /\ [][C10_GateToTestLoop]_vars

C10_Witness ==
    /\ ~projectInfo.staticAnalysis
    /\ calls.postEditCompileOk = 1
    /\ pc = "testEdit"
    /\ StaticStageCalls = 0

(* C11: with no ProjectInfo supplied, a detection of zero or several        *)
(* candidates raises before any other collaborator is called; a detection  *)
(* of exactly one candidate does not raise, and with a ProjectInfo         *)
(* supplied detection is not invoked and nothing is raised for it.         *)
CallsAfterDetection ==
    calls.selectFilesToEdit + calls.generateText + calls.installPackage
      + EditLoopCompiles + calls.editEditor + calls.getFilesAddedInHeadCommit
      + calls.editAnalyze + StaticStageCalls + TestStageCalls

C11_DetectionFatal ==
    /\ projectInfo.supplied =>
          calls.detectProjectInfo = 0 /\ result # "raised:detection"
    /\ (calls.detectProjectInfo = 1 /\ detected # 1) =>
          /\ result = "raised:detection"
          /\ pc = "done"
          /\ CallsAfterDetection = 0
    /\ (calls.detectProjectInfo = 1 /\ detected = 1) => result # "raised:detection"
    /\ result = "raised:detection" =>
          ~projectInfo.supplied /\ calls.detectProjectInfo = 1 /\ detected # 1

C11_Witness ==
    /\ result = "raised:detection"
    /\ detected = MaxDetected
    /\ CallsAfterDetection = 0

(* C12 as stated: when both test rounds fail testLoop returns the last     *)
(* diagnosis after exactly 2 editor invocations and the workflow returns;  *)
(* testLoop returns no diagnosis exactly when its last executed round      *)
(* succeeded or no test command is configured.  (Stated for the runs whose *)
(* post-edit compile succeeded.)                                           *)
TestLoopReturned ==
    pc = "done" /\ result = "returned" /\ errorAnalysis.null

LastTestRoundSucceeded ==
    testResults # <<>> /\ testResults[Len(testResults)]

AllTestRoundsFailed == calls.testAnalyze = TestLoop_MAX_ATTEMPTS

C12_Exhaustion ==
    (pc = "done" /\ AllTestRoundsFailed) =>
        /\ result = "returned"
        /\ calls.testEditor = 2
        /\ lastAnalyze.stage = "test"
        /\ testLoopResult = lastAnalyze.diagnosis

C12_NoDiagnosisIffSuccess ==
    /\ C12_Exhaustion
    /\ (TestLoopReturned /\ calls.postEditCompileOk > 0) =>
          (testLoopResult.null = (~projectInfo.test \/ LastTestRoundSucceeded))

(* C12 as amended: as above, but testLoop returns what the error analyser  *)
(* returned for the last failed round, which is no diagnosis when the      *)
(* analyser gave none; it returns no diagnosis whenever its last executed  *)
(* round succeeded or no test command is configured.                       *)
C12_TestLoopReturns ==
    /\ C12_Exhaustion
    /\ TestLoopReturned =>
          /\ (~projectInfo.test \/ LastTestRoundSucceeded) => testLoopResult.null
          /\ ~testLoopResult.null =>
                projectInfo.test /\ AllTestRoundsFailed /\ ~LastTestRoundSucceeded
          /\ (projectInfo.test /\ ~LastTestRoundSucceeded) =>
                AllTestRoundsFailed /\ testLoopResult = lastAnalyze.diagnosis

C12_Witness ==
    /\ TestLoopReturned
    /\ calls.postEditCompileOk = 1
    /\ AllTestRoundsFailed
    /\ calls.testEditor = 2
    /\ ~testLoopResult.null
    /\ testLoopResult = lastAnalyze.diagnosis

(* C13: with no test command configured no test-stage call is made: no     *)
(* test-authoring edit, no test-stage compile, no test run and no          *)
(* test-stage error analysis.                                              *)
C13_NoTestCalls ==
    ~projectInfo.test => TestStageCalls = 0 /\ testResults = <<>>

C13_Witness ==
    /\ ~projectInfo.test
    /\ TestLoopReturned
    /\ calls.postEditCompileOk = 1
    /\ TestStageCalls = 0

(* C14: when no compile run and no editor invocation of the edit/compile   *)
(* loop fails, the loop ends after its first round: one baseline compile,  *)
(* one editor invocation, no error analysis, and a clear diagnosis.        *)
C14_PassesInFirstRound ==
    (/\ pc = "compileGate"
     /\ calls.postEditCompileOk > 0
     /\ calls.compileOk = EditLoopCompiles
     /\ calls.editorFailed = 0)
        => /\ i = 0
           /\ calls.baselineCompile = 1
           /\ calls.editEditor = 1
           /\ calls.editAnalyze = 0
           /\ errorAnalysis.null

(* C15: the repair edit of a failed static-analysis round carries the      *)
(* output of that round's static-analysis run, and its file names were     *)
(* extracted from that same output.  (Stated for the runs whose post-edit  *)
(* compile succeeded.)                                                     *)
C15_RepairCarriesAnalysisOutput ==
    (calls.postEditCompileOk > 0 /\ lastEdit.stage = "staticAnalysis")
        => /\ lastEdit.requirements.text = StaticAnalysisOutput
           /\ extractedFrom = StaticAnalysisOutput

(* C16: every CodeEditor invocation over the working file set (edit round  *)
(* or test round) made after the error analyser of the edit/compile loop   *)
(* named additional files receives those files.  (Test rounds: stated for  *)
(* the runs whose post-edit compile succeeded.)                            *)
C16_DiagnosisFilesReachEditors ==
    (/\ round # <<>>
     /\ round[Len(round)][1] = "editor"
     /\ \/ lastEdit.stage = "edit"
        \/ lastEdit.stage = "test" /\ calls.postEditCompileOk > 0
     /\ lastAnalyze.stage = "edit"
     /\ ~lastAnalyze.diagnosis.null)
        => Range(lastAnalyze.diagnosis.additionalFiles) \subseteq Range(lastEdit.filesToEdit)

(* C17: the working file set only grows at its end.  After the file        *)
(* selection it changes only when the files added in the head commit are   *)
(* pushed after a successful editor invocation of the edit/compile loop;   *)
(* the static-analysis loop and the test loop leave it unchanged.          *)
IsPrefix(s, t) == Len(s) <= Len(t) /\ SubSeq(t, 1, Len(s)) = s

Pushed(s, t) == SubSeq(t, Len(s) + 1, Len(t))

C17_Step ==
    /\ IsPrefix(initialSelectedFiles, initialSelectedFiles')
    /\ initialSelectedFiles' # initialSelectedFiles =>
          \/ pc = "selectFilesToEdit" /\ initialSelectedFiles = <<>>
          \/ /\ pc = "getFilesAdded"
             /\ lastEdit.stage = "edit"
             /\ lastEdit.outcome = "ok"
             /\ calls'.getFilesAddedInHeadCommit = calls.getFilesAddedInHeadCommit + 1
             /\ files' = files \o Pushed(initialSelectedFiles, initialSelectedFiles')

C17_AppendOnly == [][C17_Step]_vars

C17_Witness ==
    /\ pc = "done"
    /\ calls.testEditor > 0
    /\ Len(initialSelectedFiles) > 1
    /\ initialSelectedFiles[Len(initialSelectedFiles)] = NewFilePool[1]
    /\ lastEdit.filesToEdit = initialSelectedFiles

(* C18: an edit round starts its edit with every package of the prior      *)
(* diagnosis installed (when language tools are available); a round with   *)
(* no prior diagnosis installs nothing and goes on to its compile or edit. *)
C18_InstallBeforeEdit ==
    /\ pc = "editFiles" =>
          installed = IF projectInfo.languageTools
                      THEN errorAnalysis.installPackages ELSE <<>>
    /\ (pc = "editCatch" /\ errorAnalysis.null) =>
          installed = <<>> /\ round # <<>>

(* C19: every run ends, and no loop runs more than its 2 rounds: at most 2 *)
(* editor invocations and 3 compile runs in the edit/compile loop, at most *)
(* 2 static-analysis runs, 2 commits and 1 repair edit, at most 2 editor   *)
(* invocations, 2 compile runs and 2 test runs in the test loop; no loop   *)
(* starts a round after one of its rounds has succeeded.                   *)
C19_Bounds ==
    /\ calls.editEditor <= MAX_ATTEMPTS
    /\ EditLoopCompiles <= MAX_ATTEMPTS + 1
    /\ calls.runStaticAnalysis <= STATIC_ANALYSIS_MAX_ATTEMPTS
    /\ calls.commit <= STATIC_ANALYSIS_MAX_ATTEMPTS
    /\ calls.staticEditor <= STATIC_ANALYSIS_MAX_ATTEMPTS - 1
    /\ calls.testEditor <= TestLoop_MAX_ATTEMPTS
    /\ calls.testCompile <= TestLoop_MAX_ATTEMPTS
    /\ calls.runTests <= TestLoop_MAX_ATTEMPTS

C19_NoRoundAfterSuccess ==
    /\ pc \in {"editRound", "editFiles"} => calls.postEditCompileOk = 0
    /\ pc = "staticAnalysis" => TRUE \notin Range(saResults)
    /\ pc = "testEdit" => TRUE \notin Range(testResults)

C19_BoundedRetry ==
    /\ [](C19_Bounds /\ C19_NoRoundAfterSuccess)
    /\ <>(pc = "done")

C19_Witness ==
    /\ pc = "done"
    /\ result = "returned"
    /\ calls.runStaticAnalysis = STATIC_ANALYSIS_MAX_ATTEMPTS
    /\ calls.commit = STATIC_ANALYSIS_MAX_ATTEMPTS
    /\ calls.staticEditor = 1
    /\ calls.testEditor = TestLoop_MAX_ATTEMPTS
    /\ calls.testCompile = TestLoop_MAX_ATTEMPTS
    /\ calls.runTests = TestLoop_MAX_ATTEMPTS

(* C20: a run of editFilesToMeetRequirements that has a key and can create *)
(* its history file throws, with the command's stdout and stderr as        *)
(* message, exactly when the aider command exits with a code above 0,      *)
(* whether or not the cost accounting failed; without a key it throws      *)
(* without running the command.  (The workflow's EditorOutcome agrees with *)
(* the run.)                                                               *)
C20_EditorOutcome ==
    editor.pc = "done" =>
        /\ (editor.keys # {} /\ editor.historyFile) =>
               /\ editor.command
               /\ (editor.thrown # "none") = (editor.exitCode > 0)
               /\ editor.thrown \in {"none", "<aider stdout stderr>"}
        /\ editor.keys = {} =>
               /\ ~editor.command
               /\ editor.thrown =
                    "Aider code editing requires a key for Anthropic, Deepseek or OpenAI"
        /\ EditorOutcome(EnvOf(editor)) =
               (IF editor.thrown = "none" THEN "ok" ELSE editor.thrown)
        /\ EditorRanCommand(EnvOf(editor)) = editor.command

C20_Witness ==
    /\ editor.pc = "done"
    /\ editor.keys = {"openai"}
    /\ editor.costError
    /\ editor.exitCode = 0
    /\ editor.command
    /\ editor.thrown = "none"
    /\ ~editor.costAdded

====
